---- MODULE Spec2Model ----
(***************************************************************************)
(* Model of scripts/translate_bill.py: the bill translation pipeline       *)
(*   load_code_definitions -> parse_line_items -> evaluate_line_items.     *)
(* Text is modelled character by character: a string is a sequence of      *)
(* one-character strings, a table line is a sequence of cells, a text is   *)
(* a sequence of lines.  Money is counted in cents.                        *)
(***************************************************************************)
EXTENDS Integers, Sequences, FiniteSets

VARIABLES
    pc,             \* position of main(): start, loaded, parsed, evaluated, ...
    defs_src,       \* the code-definition table as read from disk
    text,           \* the "Line Items" section handed to parse_line_items
    code_defs,      \* result of load_code_definitions
    rows,           \* items returned by parse_line_items
    parse_errors,   \* errors returned by parse_line_items
    section2,       \* entries returned by evaluate_line_items
    dup_groups,     \* duplicate groups returned by evaluate_line_items
    clarifications  \* clarification records returned by evaluate_line_items

vars == <<pc, defs_src, text, code_defs, rows, parse_errors,
          section2, dup_groups, clarifications>>

-----------------------------------------------------------------------------
(* Bounds of the model *)

\* data rows of a general bill text
MaxRows == 2
\* data rows of a bill text made of well-formed rows (duplicate detection)
MaxDupRows == 4

-----------------------------------------------------------------------------
(* Strings *)

Digits == {"0", "1", "2", "3", "4", "5", "6", "7", "8", "9"}

DigitVal(c) ==
    CASE c = "0" -> 0 [] c = "1" -> 1 [] c = "2" -> 2 [] c = "3" -> 3
      [] c = "4" -> 4 [] c = "5" -> 5 [] c = "6" -> 6 [] c = "7" -> 7
      [] c = "8" -> 8 [] c = "9" -> 9

RECURSIVE LStrip(_)
LStrip(s) ==
    IF s = <<>> THEN s
    ELSE IF Head(s) = " " THEN LStrip(Tail(s)) ELSE s

RECURSIVE RStrip(_)
RStrip(s) ==
    IF s = <<>> THEN s
    ELSE IF s[Len(s)] = " " THEN RStrip(SubSeq(s, 1, Len(s) - 1)) ELSE s

\* str.strip()
Strip(s) == RStrip(LStrip(s))

\* str.replace(c, "")
Remove(s, c) == SelectSeq(s, LAMBDA x : x # c)

AllDigits(s) == s # <<>> /\ \A i \in 1..Len(s) : s[i] \in Digits

RECURSIVE DigitsValue(_)
DigitsValue(s) ==
    IF s = <<>> THEN 0
    ELSE DigitsValue(SubSeq(s, 1, Len(s) - 1)) * 10 + DigitVal(s[Len(s)])

\* position of the first c in s, 0 when there is none
RECURSIVE IndexOf(_, _, _)
IndexOf(s, c, i) ==
    IF i > Len(s) THEN 0
    ELSE IF s[i] = c THEN i ELSE IndexOf(s, c, i + 1)

\* str.split(c)
RECURSIVE Split(_, _)
Split(s, c) ==
    LET k == IndexOf(s, c, 1) IN
    IF k = 0 THEN <<s>>
    ELSE <<SubSeq(s, 1, k - 1)>> \o Split(SubSeq(s, k + 1, Len(s)), c)

LowerChar(c) ==
    CASE c = "L" -> "l" [] c = "I" -> "i" [] c = "N" -> "n" [] c = "E" -> "e"
      [] c = "D" -> "d" [] c = "C" -> "c" [] c = "O" -> "o" [] c = "U" -> "u"
      [] c = "T" -> "t" [] c = "S" -> "s" [] c = "H" -> "h" [] c = "A" -> "a"
      [] c = "R" -> "r" [] c = "G" -> "g" [] c = "F" -> "f" [] c = "V" -> "v"
      [] c = "Y" -> "y" [] c = "P" -> "p" [] c = "M" -> "m"
      [] OTHER -> c

\* str.lower()
Lower(s) == [i \in 1..Len(s) |-> LowerChar(s[i])]

-----------------------------------------------------------------------------
(* Conversions *)

\* Python's None where a text (lines of cells of characters) is expected
None == << << <<"None">> >> >>

\* int(s): surrounding blanks, an optional sign, then decimal digits
SignStripped(s) ==
    IF s # <<>> /\ Head(s) \in {"-", "+"} THEN Tail(s) ELSE s

IntValid(s) == AllDigits(SignStripped(Strip(s)))

IntValue(s) ==
    LET t == Strip(s)
        v == DigitsValue(SignStripped(t))
    IN IF t # <<>> /\ Head(t) = "-" THEN 0 - v ELSE v

\* float(s) on the characters the model uses: surrounding blanks, an optional
\* sign, then digits with an optional fraction, or a fraction alone
FloatParts(s) == Split(SignStripped(Strip(s)), ".")

FloatValid(s) ==
    LET p == FloatParts(s) IN
    \/ Len(p) = 1 /\ AllDigits(p[1])
    \/ /\ Len(p) = 2
       /\ p[1] = <<>> \/ AllDigits(p[1])
       /\ p[2] = <<>> \/ AllDigits(p[2])
       /\ p[1] # <<>> \/ p[2] # <<>>

\* the value of float(s) in cents (fractions of at most two digits)
FloatCents(s) ==
    LET t == Strip(s)
        p == FloatParts(s)
        frac == IF Len(p) = 2 THEN p[2] ELSE <<>>
        fracCents == IF Len(frac) = 1 THEN DigitsValue(frac) * 10
                     ELSE DigitsValue(frac)
        v == DigitsValue(p[1]) * 100 + fracCents
    IN IF t # <<>> /\ Head(t) = "-" THEN 0 - v ELSE v

\* parse_money: strip, drop "$" and ",", then float()
MoneyText(val) == Remove(Remove(Strip(val), "$"), ",")
parse_money_ok(val) == FloatValid(MoneyText(val))
parse_money(val) == FloatCents(MoneyText(val))

IsLeap(y) == (y % 4 = 0 /\ y % 100 # 0) \/ y % 400 = 0

DaysInMonth(y, m) ==
    IF m = 2 THEN (IF IsLeap(y) THEN 29 ELSE 28)
    ELSE IF m \in {4, 6, 9, 11} THEN 30 ELSE 31

\* datetime.strptime(s, "%Y-%m-%d"): four digits, one or two, one or two,
\* and a day that exists in that month
DateValid(s) ==
    LET p == Split(s, "-") IN
    /\ Len(p) = 3
    /\ AllDigits(p[1]) /\ Len(p[1]) = 4 /\ DigitsValue(p[1]) >= 1
    /\ AllDigits(p[2]) /\ Len(p[2]) <= 2
    /\ DigitsValue(p[2]) \in 1..12
    /\ AllDigits(p[3]) /\ Len(p[3]) <= 2
    /\ DigitsValue(p[3]) \in 1..DaysInMonth(DigitsValue(p[1]), DigitsValue(p[2]))

\* the date as <<year, month, day>>
DateValue(s) ==
    LET p == Split(s, "-") IN
    <<DigitsValue(p[1]), DigitsValue(p[2]), DigitsValue(p[3])>>

\* date comparison a > b
DateAfter(a, b) ==
    \/ a[1] > b[1]
    \/ a[1] = b[1] /\ a[2] > b[2]
    \/ a[1] = b[1] /\ a[2] = b[2] /\ a[3] > b[3]

DigitChar(n) ==
    CASE n = 0 -> "0" [] n = 1 -> "1" [] n = 2 -> "2" [] n = 3 -> "3"
      [] n = 4 -> "4" [] n = 5 -> "5" [] n = 6 -> "6" [] n = 7 -> "7"
      [] n = 8 -> "8" [] n = 9 -> "9"

\* n written with exactly w digits
RECURSIVE Padded(_, _)
Padded(n, w) ==
    IF w = 0 THEN <<>> ELSE Padded(n \div 10, w - 1) \o <<DigitChar(n % 10)>>

\* date.strftime("%Y-%m-%d")
strftime(d) == Padded(d[1], 4) \o <<"-">> \o Padded(d[2], 2) \o <<"-">> \o Padded(d[3], 2)


\* str(n) for n >= 0
RECURSIVE IntText(_)
IntText(n) ==
    IF n < 10 THEN <<DigitChar(n)>> ELSE IntText(n \div 10) \o <<DigitChar(n % 10)>>

Max(S) == CHOOSE x \in S : \A y \in S : y <= x
Min(S) == CHOOSE x \in S : \A y \in S : x <= y

-----------------------------------------------------------------------------
(* load_code_definitions *)

RegistryColumns ==
    {"code", "code_type", "official_description", "plain_english", "status",
     "effective_date"}

\* one row of the table becomes one definition, every field stripped
Definition(row) ==
    [code_type            |-> Strip(row.code_type),
     official_description |-> Strip(row.official_description),
     plain_english        |-> Strip(row.plain_english),
     status               |-> Strip(row.status),
     effective_date       |-> Strip(row.effective_date)]

\* defs[code] = {...} row after row: a later row replaces an earlier one
RECURSIVE LoadRows(_)
LoadRows(rs) ==
    IF rs = <<>> THEN <<>>
    ELSE LET before == LoadRows(SubSeq(rs, 1, Len(rs) - 1))
             last   == rs[Len(rs)]
             code   == Strip(last.code)
         IN [c \in DOMAIN before \cup {code} |->
                IF c = code THEN Definition(last) ELSE before[c]]

\* row["..."] raises KeyError when the table has rows and lacks a column
LoadRaises(src) == src.rows # <<>> /\ ~(RegistryColumns \subseteq src.header)

LoadCodeDefinitions ==
    /\ pc = "start"
    /\ IF LoadRaises(defs_src)
       THEN /\ pc' = "load_failed"
            /\ code_defs' = code_defs
       ELSE /\ pc' = "loaded"
            /\ code_defs' = LoadRows(defs_src.rows)
    /\ UNCHANGED <<defs_src, text, rows, parse_errors,
                   section2, dup_groups, clarifications>>

-----------------------------------------------------------------------------
(* parse_line_items *)

NO_RESPONSE == <<"_No response_">>

\* blank(text), for a text given as its lines
blank(t) ==
    \/ t = None
    \/ t = <<>>
    \/ Len(t) = 1 /\ Len(t[1]) = 1 /\ Strip(t[1][1]) \in {<<>>, NO_RESPONSE}

\* the fence character (a grave accent), written as a token
Backtick == "GRAVE"

Backticks == <<Backtick, Backtick, Backtick>>

\* the first re.sub: a first line that opens a fence is removed
OpensFence(line) ==
    /\ line # <<>>
    /\ Len(line[1]) >= 3
    /\ SubSeq(line[1], 1, 3) = Backticks

\* the second re.sub: a last line that is a bare fence is removed
ClosesFence(line) == Len(line) = 1 /\ Strip(line[1]) = Backticks

StripFences(t) ==
    LET t1 == IF t # <<>> /\ OpensFence(t[1]) THEN Tail(t) ELSE t
    IN IF t1 # <<>> /\ ClosesFence(t1[Len(t1)])
       THEN SubSeq(t1, 1, Len(t1) - 1) ELSE t1

\* Python's None where a list of names is expected
NoFieldnames == << <<"None">> >>

\* reader.fieldnames: None without a first line, else its cells normalised
Fieldnames(t) ==
    IF t = <<>> THEN NoFieldnames
    ELSE [i \in 1..Len(t[1]) |-> Lower(Strip(t[1][i]))]

L_line_id == <<"l", "i", "n", "e", "_", "i", "d">>
L_date_of_service ==
    <<"d", "a", "t", "e", "_", "o", "f", "_", "s", "e", "r", "v", "i", "c", "e">>
L_code == <<"c", "o", "d", "e">>
L_code_type == <<"c", "o", "d", "e", "_", "t", "y", "p", "e">>
L_units == <<"u", "n", "i", "t", "s">>
L_charge == <<"c", "h", "a", "r", "g", "e">>
L_bill_label == <<"b", "i", "l", "l", "_", "l", "a", "b", "e", "l">>

required_cols ==
    {L_line_id, L_date_of_service, L_code, L_code_type, L_units, L_charge}

FieldSet(names) == IF names = NoFieldnames THEN {} ELSE {names[i] : i \in 1..Len(names)}

\* (raw_row.get(name) or "").strip(): the cell under the last column of that
\* name, "" when the row is too short or the column is absent
Cell(names, line, name) ==
    LET at == {i \in 1..Len(names) : names[i] = name} IN
    IF at = {} \/ Max(at) > Len(line) THEN <<>> ELSE Strip(line[Max(at)])

\* the messages of one data row, in the order the fields are validated; a
\* message that quotes the raw value is the pair of its text and that value
RowErrors(names, line) ==
    LET line_id   == Cell(names, line, L_line_id)
        dos_str   == Cell(names, line, L_date_of_service)
        code      == Cell(names, line, L_code)
        code_type == Cell(names, line, L_code_type)
        units_str == Cell(names, line, L_units)
        charge_str == Cell(names, line, L_charge)
    IN (IF IntValid(line_id) THEN <<>> ELSE << <<"invalid line_id">> >>)
       \o (IF DateValid(dos_str) THEN <<>>
           ELSE << <<"invalid date_of_service", dos_str>> >>)
       \o (IF code # <<>> THEN <<>> ELSE << <<"missing code">> >>)
       \o (IF code_type # <<>> THEN <<>> ELSE << <<"missing code_type">> >>)
       \o (IF IntValid(units_str) THEN <<>>
           ELSE << <<"invalid units", units_str>> >>)
       \o (IF parse_money_ok(charge_str) THEN <<>>
           ELSE << <<"invalid charge", charge_str>> >>)

\* the item of a data row without messages
RowItem(names, line) ==
    [line_id         |-> IntValue(Cell(names, line, L_line_id)),
     date_of_service |-> DateValue(Cell(names, line, L_date_of_service)),
     code            |-> Cell(names, line, L_code),
     code_type       |-> Cell(names, line, L_code_type),
     units           |-> IntValue(Cell(names, line, L_units)),
     charge          |-> parse_money(Cell(names, line, L_charge)),
     bill_label      |-> Cell(names, line, L_bill_label)]

\* f"Row {i}, line_id={lid_display}: {'; '.join(row_errors)}"
RowError(names, line, i) ==
    LET line_id == Cell(names, line, L_line_id)
        lid_display == IF line_id # <<>> THEN line_id
                       ELSE <<"(", "r", "o", "w", " ">> \o IntText(i) \o <<")">>
    IN <<"Row", i, lid_display, RowErrors(names, line)>>

\* numbering that forgets the header line
RowNumberFromOne(k) == k

\* the data row read as number k (k = 1 is the row after the header)
RowNumber(k) == k + 1

\* the loop over the data rows: (rows, errors) after the first n of them
RECURSIVE ParseRows(_, _, _)
ParseRows(names, data, n) ==
    IF n = 0 THEN [rows |-> <<>>, errors |-> <<>>]
    ELSE LET before == ParseRows(names, data, n - 1)
             line   == data[n]
         IN IF RowErrors(names, line) # <<>>
            THEN [rows   |-> before.rows,
                  errors |-> Append(before.errors,
                                    RowError(names, line, RowNumber(n)))]
            ELSE [rows   |-> Append(before.rows, RowItem(names, line)),
                  errors |-> before.errors]

parse_line_items(t) ==
    IF blank(t)
    THEN [rows |-> <<>>, errors |-> << <<"No line-item data provided.">> >>]
    ELSE LET body  == StripFences(t)
             names == Fieldnames(body)
         IN IF names # NoFieldnames /\ ~(required_cols \subseteq FieldSet(names))
            THEN [rows |-> <<>>,
                  errors |-> << <<"Missing required columns",
                                  required_cols \ FieldSet(names)>> >>]
            ELSE IF names = NoFieldnames THEN [rows |-> <<>>, errors |-> <<>>]
            ELSE ParseRows(names, Tail(body), Len(body) - 1)

ParseLineItems ==
    /\ pc = "loaded"
    /\ LET r == parse_line_items(text) IN
         /\ rows' = r.rows
         /\ parse_errors' = r.errors
    /\ pc' = "parsed"
    /\ UNCHANGED <<defs_src, text, code_defs, section2, dup_groups, clarifications>>

\* main: nothing parsed and something to report, so stop with the errors
ExitNoItems ==
    /\ pc = "parsed"
    /\ rows = <<>> /\ parse_errors # <<>>
    /\ pc' = "exit"
    /\ UNCHANGED <<defs_src, text, code_defs, rows, parse_errors,
                   section2, dup_groups, clarifications>>

-----------------------------------------------------------------------------
(* evaluate_line_items *)

\* sorted() on a sequence of [k |-> key, v |-> value]: a stable sort by k,
\* equal keys keep their order
RECURSIVE sorted(_)
sorted(seq) ==
    IF seq = <<>> THEN <<>>
    ELSE LET before == sorted(SubSeq(seq, 1, Len(seq) - 1))
             x      == seq[Len(seq)]
             n      == Cardinality({i \in 1..Len(before) : before[i].k <= x.k})
         IN SubSeq(before, 1, n) \o <<x>> \o SubSeq(before, n + 1, Len(before))

Values(seq) == [i \in 1..Len(seq) |-> seq[i].v]

\* a sort that does not keep rows of equal line_id in input order
SortedRowsTiesReversed(rs) ==
    Values(sorted([i \in 1..Len(rs) |->
                      [k |-> rs[Len(rs) + 1 - i].line_id, v |-> rs[Len(rs) + 1 - i]]]))

\* sorted(rows, key=lambda x: x["line_id"])
SortedRows(rs) ==
    Values(sorted([i \in 1..Len(rs) |-> [k |-> rs[i].line_id, v |-> rs[i]]]))

PLACEHOLDER == <<"Definition not provided in Code Pack.">>
NOT_APPLICABLE == <<"N", "/", "A">>
ACTIVE == <<"A", "c", "t", "i", "v", "e">>
MOD == <<"M", "O", "D">>
INACTIVE_NOTE == "Code is inactive or not effective for the date of service."
DUP_NOTE ==
    "This appears duplicated under the project's duplicate rule. Please confirm with billing."

\* the chain with the status and date test ahead of the type test
BranchInactiveFirst(item, defs) ==
    IF item.code \notin DOMAIN defs THEN "missing"
    ELSE LET defn == defs[item.code] IN
         IF ~DateValid(defn.effective_date) THEN "raise"
         ELSE IF \/ defn.status # ACTIVE
                 \/ DateAfter(DateValue(defn.effective_date), item.date_of_service)
              THEN "inactive"
         ELSE IF item.code_type # defn.code_type THEN "mismatch"
         ELSE "active"

\* which arm of the if/else chain an item takes; "raise" when strptime of the
\* pack's effective_date raises ValueError
Branch(item, defs) ==
    IF item.code \notin DOMAIN defs THEN "missing"
    ELSE LET defn == defs[item.code] IN
         IF item.code_type # defn.code_type THEN "mismatch"
         ELSE IF ~DateValid(defn.effective_date) THEN "raise"
         ELSE IF \/ defn.status # ACTIVE
                 \/ DateAfter(DateValue(defn.effective_date), item.date_of_service)
              THEN "inactive"
              ELSE "active"

BranchReasons(item, defs) ==
    LET b == Branch(item, defs) IN
    IF b = "missing" THEN << <<"Missing code definition">> >>
    ELSE IF b = "mismatch"
         THEN << <<"code_type mismatch", item.code_type, defs[item.code].code_type>> >>
    ELSE IF b = "inactive" THEN << <<INACTIVE_NOTE>> >>
    ELSE <<>>

\* the units trigger without its charge test
UnitsTriggerAnyCharge(item) == item.units = 0

UnitsTrigger(item) == item.units = 0 /\ item.charge > 0

ModTrigger(item) == item.code_type = MOD /\ item.charge > 0

\* clarification_reasons of one item, in the order they are appended
Reasons(item, defs) ==
    BranchReasons(item, defs)
    \o (IF UnitsTrigger(item) THEN << <<"units = 0 AND charge > 0">> >> ELSE <<>>)
    \o (IF ModTrigger(item) THEN << <<"code_type is MOD with charge > 0">> >> ELSE <<>>)

\* the section2 entry of one item, before the duplicate notes
Entry(item, defs) ==
    LET b == Branch(item, defs) IN
    [line_id       |-> item.line_id,
     dos           |-> strftime(item.date_of_service),
     code          |-> item.code,
     code_type     |-> item.code_type,
     official_desc |-> IF b \in {"missing", "mismatch"} THEN PLACEHOLDER
                       ELSE IF b = "inactive" THEN NOT_APPLICABLE
                       ELSE defs[item.code].official_description,
     plain_eng     |-> IF b \in {"missing", "mismatch"} THEN PLACEHOLDER
                       ELSE IF b = "inactive" THEN NOT_APPLICABLE
                       ELSE defs[item.code].plain_english,
     units         |-> item.units,
     charge        |-> item.charge,
     notes         |-> IF b = "inactive" THEN <<INACTIVE_NOTE>> ELSE <<>>]

\* the first loop: one entry per item, a clarification where reasons exist
Entries(items, defs) == [i \in 1..Len(items) |-> Entry(items[i], defs)]

RECURSIVE Clarifications(_, _)
Clarifications(items, defs) ==
    IF items = <<>> THEN <<>>
    ELSE LET before == Clarifications(SubSeq(items, 1, Len(items) - 1), defs)
             item   == items[Len(items)]
         IN IF Reasons(item, defs) # <<>>
            THEN Append(before, [line_id |-> item.line_id,
                                 code    |-> item.code,
                                 reasons |-> Reasons(item, defs)])
            ELSE before

\* a key that leaves the charge out
DupKeyWithoutCharge(item) ==
    <<strftime(item.date_of_service), item.code, item.units, 0>>

\* the duplicate key of an item
DupKey(item) ==
    <<strftime(item.date_of_service), item.code, item.units, item.charge>>

\* dup_groups_map after the first n items: the keys in the order they were
\* first seen, each with the line_ids appended to it
RECURSIVE GroupsMap(_, _)
GroupsMap(items, n) ==
    IF n = 0 THEN <<>>
    ELSE LET before == GroupsMap(items, n - 1)
             item   == items[n]
             at     == {j \in 1..Len(before) : before[j].key = DupKey(item)}
         IN IF at = {}
            THEN Append(before, [key |-> DupKey(item), ids |-> <<item.line_id>>])
            ELSE [j \in 1..Len(before) |->
                     IF j \in at
                     THEN [key |-> before[j].key,
                           ids |-> Append(before[j].ids, item.line_id)]
                     ELSE before[j]]

SeqMin(ids) == Min({ids[i] : i \in 1..Len(ids)})

\* sorted(dup_groups_map.keys(), key=lambda k: min(dup_groups_map[k]))
SortedKeys(map) ==
    Values(sorted([j \in 1..Len(map) |-> [k |-> SeqMin(map[j].ids), v |-> map[j]]]))

\* only groups with more than one member are kept
IsDuplicate(g) == Len(g.ids) > 1

\* the kept groups, numbered from 1 in that order
DupGroups(items) ==
    LET kept == SelectSeq(SortedKeys(GroupsMap(items, Len(items))), IsDuplicate)
    IN [n \in 1..Len(kept) |->
           [group    |-> n,
            line_ids |-> kept[n].ids,
            dos      |-> kept[n].key[1],
            code     |-> kept[n].key[2],
            units    |-> kept[n].key[3],
            charge   |-> kept[n].key[4]]]

\* dup_line_ids
DupLineIds(groups) ==
    UNION {{groups[g].line_ids[i] : i \in 1..Len(groups[g].line_ids)} :
           g \in 1..Len(groups)}

\* whether an entry gets the duplicate note
Flagged(entry, groups) == entry.line_id \in DupLineIds(groups)

\* a last loop that overwrites the notes instead of appending to them
WithDupNotesReplacing(entries, groups) ==
    [i \in 1..Len(entries) |->
        IF Flagged(entries[i], groups)
        THEN [entries[i] EXCEPT !.notes = <<DUP_NOTE>>]
        ELSE entries[i]]

\* the last loop: the duplicate note goes after the notes an entry has
WithDupNotes(entries, groups) ==
    [i \in 1..Len(entries) |->
        IF Flagged(entries[i], groups)
        THEN [entries[i] EXCEPT !.notes = Append(@, DUP_NOTE)]
        ELSE entries[i]]

\* the call raises when an item reaches strptime with a malformed date
EvaluateRaises(rs, defs) ==
    \E i \in 1..Len(rs) : Branch(rs[i], defs) = "raise"

evaluate_line_items(rs, defs) ==
    LET items  == SortedRows(rs)
        groups == DupGroups(items)
    IN [section2       |-> WithDupNotes(Entries(items, defs), groups),
        dup_groups     |-> groups,
        clarifications |-> Clarifications(items, defs)]

EvaluateLineItems ==
    /\ pc = "parsed"
    /\ ~(rows = <<>> /\ parse_errors # <<>>)
    /\ IF EvaluateRaises(rows, code_defs)
       THEN /\ pc' = "raised"
            /\ UNCHANGED <<section2, dup_groups, clarifications>>
       ELSE /\ pc' = "evaluated"
            /\ LET r == evaluate_line_items(rows, code_defs) IN
                 /\ section2' = r.section2
                 /\ dup_groups' = r.dup_groups
                 /\ clarifications' = r.clarifications
    /\ UNCHANGED <<defs_src, text, code_defs, rows, parse_errors>>

-----------------------------------------------------------------------------
(* Inputs *)

\* the sequences over S of length at most n
SeqsUpTo(S, n) == UNION {[1..k -> S] : k \in 0..n}

D_0101 == <<"2", "0", "2", "4", "-", "0", "1", "-", "0", "1">>
D_0102 == <<"2", "0", "2", "4", "-", "0", "1", "-", "0", "2">>
D_0101_short == <<"2", "0", "2", "4", "-", "1", "-", "1">>
D_0102_short == <<"2", "0", "2", "4", "-", "1", "-", "2">>
D_1231 == <<"2", "0", "2", "3", "-", "1", "2", "-", "3", "1">>
D_month13 == <<"2", "0", "2", "4", "-", "1", "3", "-", "0", "1">>
D_feb30 == <<"2", "0", "2", "4", "-", "0", "2", "-", "3", "0">>
D_slashes == <<"0", "1", "/", "0", "1", "/", "2", "0", "2", "4">>
CPT == <<"C", "P", "T">>
HCPCS == <<"H", "C", "P", "C", "S">>
RETIRED == <<"R", "e", "t", "i", "r", "e", "d">>

\* a row of the code-definition table
PackRow(code, type, status, date) ==
    [code                 |-> code,
     code_type            |-> type,
     official_description |-> <<"o">> \o Strip(code) \o <<" ">>,
     plain_english        |-> <<" ", "p">> \o Strip(code),
     status               |-> status,
     effective_date       |-> date]

RegEmpty == [header |-> RegistryColumns, rows |-> <<>>]

\* A is listed twice (the later row counts); fields carry blanks
RegActive ==
    [header |-> RegistryColumns,
     rows   |-> <<PackRow(<<"A">>, MOD, RETIRED, D_0102),
                  PackRow(<<" ", "A">>, <<" ">> \o CPT, ACTIVE \o <<" ">>, D_0101 \o <<" ">>),
                  PackRow(<<"M">>, MOD, ACTIVE, D_1231)>>]

RegInactive ==
    [header |-> RegistryColumns,
     rows   |-> <<PackRow(<<"A">>, CPT, RETIRED, D_0101),
                  PackRow(<<"M">>, MOD, Lower(ACTIVE), D_0101)>>]

\* effective from the second of January
RegLate ==
    [header |-> RegistryColumns,
     rows   |-> <<PackRow(<<"A">>, CPT, ACTIVE, D_0102),
                  PackRow(<<"M">>, MOD, ACTIVE, D_0102_short)>>]

\* entries of another type that are retired or carry a malformed date as well
RegMismatch ==
    [header |-> RegistryColumns,
     rows   |-> <<PackRow(<<"A">>, HCPCS, RETIRED, D_0101),
                  PackRow(<<"M">>, CPT, ACTIVE, D_month13)>>]

RegBadDate ==
    [header |-> RegistryColumns,
     rows   |-> <<PackRow(<<"A">>, CPT, ACTIVE, D_month13),
                  PackRow(<<"M">>, MOD, ACTIVE, <<>>)>>]

RegNoColumn ==
    [header |-> RegistryColumns \ {"effective_date"},
     rows   |-> <<PackRow(<<"A">>, CPT, ACTIVE, D_0101)>>]

Registries ==
    {RegEmpty, RegActive, RegInactive, RegLate, RegMismatch, RegBadDate, RegNoColumn}

\* data rows, cells in the order line_id, date_of_service, code, code_type,
\* units, charge
RawRows ==
    { \* well-formed rows
      << <<"1">>, D_0101, <<"A">>, CPT, <<"1">>, <<"$", "1", ".", "0", "0">> >>,
      << <<" ", "2", " ">>, D_0102_short, <<" ", "A">>, CPT, <<"+", "1">>, <<"1">> >>,
      << <<"1">>, D_0102, <<"A">>, MOD, <<"0">>, <<"2", ".", "5">> >>,
      << <<"3">>, D_0101, <<"M">>, MOD, <<"0">>, <<"0">> >>,
      << <<"2">>, D_0101, <<"Z">>, CPT, <<"0">>, <<"$", "1", ",", "0">> >>,
      << <<"0">>, D_0101, <<"A">>, CPT, <<"-", "1">>, <<"-", "5">> >>,
      << <<"-", "1">>, D_0102, <<"M">>, MOD, <<"1">>, <<"5">> >>,
      \* rows with one failing field
      << <<"x">>, D_0101, <<"A">>, CPT, <<"1">>, <<"1">> >>,
      << <<"4">>, D_slashes, <<"A">>, CPT, <<"1">>, <<"1">> >>,
      << <<"5">>, D_0101, <<"A">>, CPT, <<"1">>, <<"1", ".", "2", ".", "3">> >>,
      << <<"7">>, D_0101, <<"A">>, CPT, <<"-", " ", "1">>, <<"1">> >>,
      \* rows with several failing fields
      << <<>>, D_feb30, <<" ", " ">>, <<>>, <<"1", ".", "5">>, <<"$">> >>,
      << <<"6">>, D_0101 >> }

Header == <<L_line_id, L_date_of_service, L_code, L_code_type, L_units, L_charge>>

\* the header without its i-th column
HeaderWithout(i) == SubSeq(Header, 1, i - 1) \o SubSeq(Header, i + 1, Len(Header))

\* headers that normalise to the required columns, and headers that do not
OtherHeaders ==
    { Header,
      Header \o <<L_bill_label>>,
      << <<" ", "L", "i", "n", "e", "_", "I", "D", " ">>,
         <<"D", "A", "T", "E", "_", "O", "F", "_", "S", "E", "R", "V", "I", "C", "E">>,
         <<"C", "o", "d", "e">>, L_code_type \o <<" ">>, <<"U", "N", "I", "T", "S">>,
         <<"C", "h", "a", "r", "g", "e">> >>,
      << <<"l", "i", "n", "e", "_", "i", "d", ";", "c", "o", "d", "e">> >> }
    \cup {HeaderWithout(i) : i \in 1..6}

\* rows with a bill_label cell
LabelledRows ==
    { << <<"1">>, D_0101, <<"A">>, CPT, <<"1">>, <<"1">>, <<" ", "E", "R">> >>,
      << <<"2">>, D_0101, <<>>, CPT, <<"1">>, <<"1">>, <<>> >> }

FenceOpen == << <<Backtick, Backtick, Backtick, "t", "e", "x", "t">> >>
FenceBare == << Backticks >>

\* (opening lines, closing lines) around the table
Fences == { <<<<>>, <<>>>>, <<<<FenceOpen>>, <<FenceBare>>>>, <<<<FenceBare>>, <<>>>> }

GeneralTexts == {<<Header>> \o data : data \in SeqsUpTo(RawRows, MaxRows)}

HeaderTexts ==
    {f[1] \o <<h>> \o data \o f[2] :
        f \in Fences, h \in OtherHeaders, data \in SeqsUpTo(LabelledRows, MaxRows)}

\* texts without a table
EmptyTexts ==
    { None, <<>>, << <<NO_RESPONSE>> >>, << <<<<" ">> \o NO_RESPONSE>> >>,
      <<FenceBare>>, <<FenceOpen, FenceBare>>, <<FenceBare, FenceBare>> }

Texts == GeneralTexts \cup HeaderTexts \cup EmptyTexts

\* well-formed rows around one duplicate key: the first two share the key
\* (written differently), the others differ from it in one field each
DupRows ==
    { << <<"1">>, D_0101, <<"A">>, CPT, <<"1">>, <<"$", "1", ".", "0", "0">> >>,
      << <<" ", "2">>, D_0101_short, <<"A", " ">>, MOD, <<"+", "1">>, <<"1">> >>,
      << <<"1">>, D_0102, <<"A">>, CPT, <<"1">>, <<"1">> >>,
      << <<"3">>, D_0101, <<"M">>, CPT, <<"1">>, <<"1">> >>,
      << <<"2">>, D_0101, <<"A">>, CPT, <<"2">>, <<"1">> >>,
      << <<"3">>, D_0101, <<"A">>, CPT, <<"1">>, <<"1", ".", "5">> >> }

DupTexts ==
    {<<Header>> \o data : data \in SeqsUpTo(DupRows, MaxDupRows)} \cup {None}

-----------------------------------------------------------------------------
(* The pipeline of main() *)

Start(src, t) ==
    /\ pc = "start"
    /\ defs_src = src
    /\ text = t
    /\ code_defs = <<>>
    /\ rows = <<>>
    /\ parse_errors = <<>>
    /\ section2 = <<>>
    /\ dup_groups = <<>>
    /\ clarifications = <<>>

Init == \E src \in Registries, t \in Texts : Start(src, t)

InitDup == \E src \in {RegLate, RegActive}, t \in DupTexts : Start(src, t)

Next ==
    \/ LoadCodeDefinitions
    \/ ParseLineItems
    \/ ExitNoItems
    \/ EvaluateLineItems

Spec == Init /\ [][Next]_vars

\* the same program on bills of well-formed rows
SpecDup == InitDup /\ [][Next]_vars

-----------------------------------------------------------------------------
(* Vocabulary of the properties *)

\* the normalised header set of the fence-stripped input (empty without one)
HeaderSet ==
    IF blank(text) THEN {} ELSE FieldSet(Fieldnames(StripFences(text)))

\* the input is a table under a header with the six required columns
ValidHeader == ~blank(text) /\ required_cols \subseteq HeaderSet

HeaderNames == Fieldnames(StripFences(text))

\* the data rows of the input, in input order
DataLines == Tail(StripFences(text))

Parsed == pc \in {"parsed", "exit", "evaluated", "raised"}

FieldOrder == <<L_line_id, L_date_of_service, L_code, L_code_type, L_units, L_charge>>

\* whether a field of a data row fails its validation
Fails(names, line, f) ==
    LET raw == Cell(names, line, f) IN
    CASE f = L_line_id         -> ~IntValid(raw)
      [] f = L_date_of_service -> ~DateValid(raw)
      [] f = L_code            -> raw = <<>>
      [] f = L_code_type       -> raw = <<>>
      [] f = L_units           -> ~IntValid(raw)
      [] f = L_charge          -> ~parse_money_ok(raw)

MessageText(f) ==
    CASE f = L_line_id         -> "invalid line_id"
      [] f = L_date_of_service -> "invalid date_of_service"
      [] f = L_code            -> "missing code"
      [] f = L_code_type       -> "missing code_type"
      [] f = L_units           -> "invalid units"
      [] f = L_charge          -> "invalid charge"

FailingFields(names, line) == SelectSeq(FieldOrder, LAMBDA f : Fails(names, line, f))

Positions(n) == [j \in 1..n |-> j]

\* positions of the data rows with a failing field, and of those without
BadPositionsOf(names, data) ==
    SelectSeq(Positions(Len(data)), LAMBDA j : FailingFields(names, data[j]) # <<>>)
GoodPositionsOf(names, data) ==
    SelectSeq(Positions(Len(data)), LAMBDA j : FailingFields(names, data[j]) = <<>>)

BadPositions == BadPositionsOf(HeaderNames, DataLines)
GoodPositions == GoodPositionsOf(HeaderNames, DataLines)

\* an entry carries the fields of an item
EntryOf(e, item) ==
    /\ e.line_id = item.line_id
    /\ e.dos = strftime(item.date_of_service)
    /\ e.code = item.code
    /\ e.code_type = item.code_type
    /\ e.units = item.units
    /\ e.charge = item.charge

\* where input row j lands: after the rows of smaller line_id and after the
\* earlier rows of the same line_id
Rank(items, j) ==
    Cardinality({i \in 1..Len(items) : items[i].line_id < items[j].line_id})
    + Cardinality({i \in 1..j : items[i].line_id = items[j].line_id})

-----------------------------------------------------------------------------
(* C2: row-level validation *)

\* C2: under a valid header every data row is processed: each row with a
\* failing field adds exactly one error (its row number is position + 1 and
\* it carries one message per failing field, in field order) and no item,
\* each other row adds exactly one item and no error, the items keep input
\* order and are the rows' own values, so items + errors = data rows.
C2_EveryRowIsItemOrError ==
    (Parsed /\ ValidHeader) =>
        LET names == HeaderNames
            data  == DataLines
            bad   == BadPositionsOf(names, data)
            good  == GoodPositionsOf(names, data)
        IN /\ Len(rows) + Len(parse_errors) = Len(data)
           /\ Len(parse_errors) = Len(bad)
           /\ Len(rows) = Len(good)
           /\ \A k \in 1..Len(bad) :
                 LET e == parse_errors[k]
                     failing == FailingFields(names, data[bad[k]])
                 IN /\ e[1] = "Row"
                    /\ e[2] = bad[k] + 1
                    /\ Len(e[4]) = Len(failing)
                    /\ \A m \in 1..Len(failing) : e[4][m][1] = MessageText(failing[m])
           /\ \A k \in 1..Len(good) : rows[k] = RowItem(names, data[good[k]])

\* a row with several failing fields, reported once, ahead of a good row
C2_Witness ==
    /\ pc = "parsed" /\ ValidHeader
    /\ Len(DataLines) = 2
    /\ BadPositions = <<1>>
    /\ Len(parse_errors) = 1 /\ Len(parse_errors[1][4]) >= 2
    /\ Len(rows) = 1

-----------------------------------------------------------------------------
(* C3: structural failure *)

\* C3: whenever the normalised header set of the fence-stripped input lacks
\* one of the six required columns (also when no header remains at all),
\* parse_line_items returns no item and exactly one error, never a row error.
C3_MissingColumnsGiveOneError ==
    (Parsed /\ ~(required_cols \subseteq HeaderSet)) =>
        /\ rows = <<>>
        /\ Len(parse_errors) = 1
        /\ parse_errors[1][1] # "Row"

-----------------------------------------------------------------------------
(* C9: validated records *)

\* C9: every item parse_line_items returns has a positive line_id and a
\* non-negative charge.
C9_ItemsArePositiveAndNonNegative ==
    \A i \in 1..Len(rows) : rows[i].line_id > 0 /\ rows[i].charge >= 0

-----------------------------------------------------------------------------
(* C1: one entry per row, in line_id order *)

\* the items of the data rows, in input order
InputItems == [j \in 1..Len(DataLines) |-> RowItem(HeaderNames, DataLines[j])]

\* C1: for well-formed data rows in any order, parsing then evaluating
\* yields exactly one entry per input row: the entry of input row j stands
\* at the place its line_id and, among equal line_ids, its input position
\* give it, so the entries ascend by line_id and ties keep input order.
C1_OneEntryPerRowInLineIdOrder ==
    (pc = "evaluated" /\ ValidHeader /\ BadPositions = <<>>) =>
        /\ Len(section2) = Len(DataLines)
        /\ \A j \in 1..Len(DataLines) :
              EntryOf(section2[Rank(InputItems, j)], InputItems[j])
        /\ \A i \in 1..Len(section2) - 1 :
              section2[i].line_id <= section2[i + 1].line_id

\* rows given out of order, two of them different rows of one line_id
C1_Witness ==
    /\ pc = "evaluated" /\ ValidHeader /\ BadPositions = <<>>
    /\ Len(section2) >= 3
    /\ \E i, j \in 1..Len(DataLines) :
          i < j /\ InputItems[i].line_id > InputItems[j].line_id
    /\ \E i, j \in 1..Len(DataLines) :
          /\ i < j
          /\ InputItems[i].line_id = InputItems[j].line_id
          /\ InputItems[i] # InputItems[j]

-----------------------------------------------------------------------------
(* C4, C5: descriptions and clarification reasons *)

\* the items in the order evaluate_line_items goes through them
Items == SortedRows(rows)

Has(seq, x) == \E i \in 1..Len(seq) : seq[i] = x

Missing(item) == item.code \notin DOMAIN code_defs

Mismatch(item) ==
    /\ ~Missing(item)
    /\ item.code_type # code_defs[item.code].code_type

NotEffective(item) ==
    /\ ~Missing(item)
    /\ ~Mismatch(item)
    /\ \/ code_defs[item.code].status # ACTIVE
       \/ DateAfter(DateValue(code_defs[item.code].effective_date),
                    item.date_of_service)

UnitsCase(item) == item.units = 0 /\ item.charge > 0

ModCase(item) == item.code_type = MOD /\ item.charge > 0

UNITS_REASON == <<"units = 0 AND charge > 0">>
MOD_REASON == <<"code_type is MOD with charge > 0">>

Clarified(item) ==
    Missing(item) \/ Mismatch(item) \/ NotEffective(item)
    \/ UnitsCase(item) \/ ModCase(item)

\* the place of item k's record among the clarifications
ClarRank(k) == Cardinality({i \in 1..k : Clarified(Items[i])})

\* C4: every item takes exactly one description branch, in the precedence
\* (1) code absent from the registry: placeholder and "Missing code
\* definition"; (2) else type differs: placeholder and the mismatch reason,
\* no inactive note or reason even for an inactive entry; (3) else not
\* Active or effective after the date of service: "N/A", the inactive note
\* and reason; (4) else the registry's descriptions, no note, no reason of
\* this branch.
C4_BranchPrecedence ==
    pc = "evaluated" =>
        \A k \in 1..Len(Items) :
            LET item == Items[k]
                e == section2[k]
                reasons == IF Clarified(item) /\ ClarRank(k) <= Len(clarifications)
                           THEN clarifications[ClarRank(k)].reasons ELSE <<>>
            IN IF Missing(item)
               THEN /\ e.official_desc = PLACEHOLDER /\ e.plain_eng = PLACEHOLDER
                    /\ ~Has(e.notes, INACTIVE_NOTE)
                    /\ reasons # <<>> /\ reasons[1] = <<"Missing code definition">>
                    /\ ~Has(reasons, <<INACTIVE_NOTE>>)
               ELSE IF Mismatch(item)
               THEN /\ e.official_desc = PLACEHOLDER /\ e.plain_eng = PLACEHOLDER
                    /\ ~Has(e.notes, INACTIVE_NOTE)
                    /\ reasons # <<>>
                    /\ reasons[1] = <<"code_type mismatch", item.code_type,
                                      code_defs[item.code].code_type>>
                    /\ ~Has(reasons, <<INACTIVE_NOTE>>)
               ELSE IF NotEffective(item)
               THEN /\ e.official_desc = NOT_APPLICABLE /\ e.plain_eng = NOT_APPLICABLE
                    /\ e.notes # <<>> /\ e.notes[1] = INACTIVE_NOTE
                    /\ reasons # <<>> /\ reasons[1] = <<INACTIVE_NOTE>>
               ELSE /\ e.official_desc = code_defs[item.code].official_description
                    /\ e.plain_eng = code_defs[item.code].plain_english
                    /\ ~Has(e.notes, INACTIVE_NOTE)
                    /\ \A i \in 1..Len(reasons) : reasons[i] \in {UNITS_REASON, MOD_REASON}

\* a bill code of another type than its retired registry entry, beside a
\* code the registry does not hold
C4_Witness ==
    /\ pc = "evaluated"
    /\ \E k \in 1..Len(Items) :
          /\ Mismatch(Items[k])
          /\ code_defs[Items[k].code].status # ACTIVE
          /\ section2[k].official_desc = PLACEHOLDER
    /\ \E k \in 1..Len(Items) : Missing(Items[k])

\* C5: whatever the branch, "units = 0 AND charge > 0" is a reason exactly
\* when units = 0 and charge > 0, and "code_type is MOD with charge > 0"
\* exactly when code_type is MOD and charge > 0; an item has a clarification
\* record exactly when it has a reason, and the record lists the branch
\* reason, then the units reason, then the MOD reason.
C5_TriggersAndRecords ==
    pc = "evaluated" =>
        /\ Len(clarifications) = Cardinality({k \in 1..Len(Items) : Clarified(Items[k])})
        /\ \A k \in 1..Len(Items) :
              Clarified(Items[k]) =>
                  LET item == Items[k]
                      c == clarifications[ClarRank(k)]
                      n == Len(c.reasons)
                      branch == Missing(item) \/ Mismatch(item) \/ NotEffective(item)
                  IN /\ c.line_id = item.line_id /\ c.code = item.code
                     /\ Has(c.reasons, UNITS_REASON) <=> UnitsCase(item)
                     /\ Has(c.reasons, MOD_REASON) <=> ModCase(item)
                     /\ n = (IF branch THEN 1 ELSE 0) + (IF UnitsCase(item) THEN 1 ELSE 0)
                            + (IF ModCase(item) THEN 1 ELSE 0)
                     /\ branch => c.reasons[1] \notin {UNITS_REASON, MOD_REASON}
                     /\ ModCase(item) => c.reasons[n] = MOD_REASON
                     /\ (UnitsCase(item) /\ ~ModCase(item)) => c.reasons[n] = UNITS_REASON

\* one item with a branch reason and both triggers, another with no reason
C5_Witness ==
    /\ pc = "evaluated"
    /\ Len(section2) = 2
    /\ Len(clarifications) = 1
    /\ Len(clarifications[1].reasons) = 3

-----------------------------------------------------------------------------
(* C8: evaluation is total *)

\* C8: with a registry that load_code_definitions returned, evaluating never
\* raises and yields one entry per item.
C8_EvaluationIsTotal ==
    /\ pc # "raised"
    /\ pc = "evaluated" => Len(section2) = Len(rows)

-----------------------------------------------------------------------------
(* C6, C7, C10: duplicate groups *)

\* the full key of an item: date of service, code, units, charge
ItemKey(item) == <<item.date_of_service, item.code, item.units, item.charge>>

\* the items (by position in rows) that have key K
Members(K) == {i \in 1..Len(rows) : ItemKey(rows[i]) = K}

\* the keys that two or more items have
DupKeys ==
    {K \in {ItemKey(rows[i]) : i \in 1..Len(rows)} : Cardinality(Members(K)) >= 2}

\* the key a group reports, and a key as a group reports it
GroupKey(g) == <<g.dos, g.code, g.units, g.charge>>
KeyText(K) == <<strftime(K[1]), K[2], K[3], K[4]>>

Count(seq, x) == Cardinality({i \in 1..Len(seq) : seq[i] = x})

\* C6: the duplicate groups are exactly the classes of two or more items
\* with equal full key (date_of_service, code, units, charge): one group per
\* such key holding the line_ids of exactly its items in ascending order,
\* no two groups of one key, groups in ascending order of their smallest
\* line_id, numbered 1..N without gap.
C6_GroupsAreKeyClasses ==
    pc = "evaluated" =>
        /\ Len(dup_groups) = Cardinality(DupKeys)
        /\ \A g \in 1..Len(dup_groups) :
              LET ids == dup_groups[g].line_ids IN
              /\ dup_groups[g].group = g
              /\ \E K \in DupKeys :
                    /\ KeyText(K) = GroupKey(dup_groups[g])
                    /\ Len(ids) = Cardinality(Members(K))
                    /\ \A i \in Members(K) :
                          Count(ids, rows[i].line_id)
                              = Cardinality({j \in Members(K) :
                                                rows[j].line_id = rows[i].line_id})
              /\ \A i \in 1..Len(ids) - 1 : ids[i] <= ids[i + 1]
        /\ \A g, h \in 1..Len(dup_groups) :
              g # h => GroupKey(dup_groups[g]) # GroupKey(dup_groups[h])
        /\ \A g, h \in 1..Len(dup_groups) :
              g < h => SeqMin(dup_groups[g].line_ids) <= SeqMin(dup_groups[h].line_ids)

\* two items of one key grouped, two items that match them in part left out
C6_Witness ==
    /\ pc = "evaluated"
    /\ Len(rows) = 4
    /\ Len(dup_groups) = 1
    /\ Len(dup_groups[1].line_ids) = 2
    /\ \E i, j \in 1..Len(rows) :
          /\ ItemKey(rows[i]) \in DupKeys
          /\ ItemKey(rows[j]) \notin DupKeys
          /\ rows[i].date_of_service = rows[j].date_of_service
          /\ rows[i].code = rows[j].code
          /\ rows[i].units = rows[j].units

RowOrders(n) == {p \in [1..n -> 1..n] : \A i, j \in 1..n : p[i] = p[j] => i = j}

\* the input with its data rows in the order p
Permuted(p) == <<StripFences(text)[1]>> \o [i \in 1..Len(DataLines) |-> DataLines[p[i]]]

\* which group number each key gets
Numbering(groups) == {<<GroupKey(groups[g]), groups[g].group>> : g \in 1..Len(groups)}

\* C7: the group numbers do not depend on the order of the input rows: every
\* reordering of the rows gives each key the group number it has here.
C7_NumberingIgnoresRowOrder ==
    (pc = "evaluated" /\ ValidHeader) =>
        \A p \in RowOrders(Len(DataLines)) :
            Numbering(evaluate_line_items(parse_line_items(Permuted(p)).rows,
                                          code_defs).dup_groups)
                = Numbering(dup_groups)

\* C10: an entry carries the duplicate note exactly when its own item shares
\* its full key with another item; the note stands last, after the inactive
\* note when there is one.
C10_NoteMarksGroupMembers ==
    pc = "evaluated" =>
        \A k \in 1..Len(Items) :
            LET notes == section2[k].notes
                member == \E j \in 1..Len(Items) :
                              j # k /\ ItemKey(Items[j]) = ItemKey(Items[k])
            IN /\ Has(notes, DUP_NOTE) <=> member
               /\ Has(notes, DUP_NOTE) => notes[Len(notes)] = DUP_NOTE
               /\ NotEffective(Items[k]) => notes[1] = INACTIVE_NOTE


\* the line_ids of the items that share their full key with another item
GroupedLineIds ==
    {Items[j].line_id : j \in {i \in 1..Len(Items) : ItemKey(Items[i]) \in DupKeys}}

\* C10 as amended: an entry carries the duplicate note exactly when its
\* line_id is the line_id of a member of some duplicate group (its own item
\* or another row of the same line_id); the note stands last, after the
\* inactive note when there is one.
C10_NoteMarksLineIdsOfGroups ==
    pc = "evaluated" =>
        \A k \in 1..Len(Items) :
            LET notes == section2[k].notes IN
            /\ Has(notes, DUP_NOTE) <=> Items[k].line_id \in GroupedLineIds
            /\ Has(notes, DUP_NOTE) => notes[Len(notes)] = DUP_NOTE
            /\ Count(notes, DUP_NOTE) <= 1
            /\ NotEffective(Items[k]) => notes[1] = INACTIVE_NOTE

\* a group member with the inactive note then the duplicate note, and an
\* entry outside every group that carries the note for its line_id
C10_Witness ==
    /\ pc = "evaluated"
    /\ \E k \in 1..Len(Items) :
          /\ ItemKey(Items[k]) \in DupKeys
          /\ section2[k].notes = <<INACTIVE_NOTE, DUP_NOTE>>
    /\ \E k \in 1..Len(Items) :
          /\ ItemKey(Items[k]) \notin DupKeys
          /\ Has(section2[k].notes, DUP_NOTE)

====
